---------------------------- MODULE Spec2Model ----------------------------
(***************************************************************************)
(* Diagonal Sudoku solver (solution.py): topology, the elimination passes, *)
(* the reduction loop and the backtracking search.                         *)
(*                                                                         *)
(* Representation.  A Python string is a sequence of one-character         *)
(* strings: '137' is <<"1","3","7">> and '' is <<>>.  A box name such as    *)
(* 'A1' is the string "A1".  A values dictionary is a function from the    *)
(* box names to such sequences; its key order is the order of `boxes`      *)
(* (grid_values inserts the keys in that order and dict.copy keeps it).    *)
(* Dictionaries are mutable objects: `heap` maps references to them.       *)
(***************************************************************************)
EXTENDS Integers, Sequences, FiniteSets, TLC

(***************************************************************************)
(* Topology (module level of solution.py)                                  *)
(***************************************************************************)
rows == <<"A", "B", "C", "D", "E", "F", "G", "H", "I">>

cols == <<"1", "2", "3", "4", "5", "6", "7", "8", "9">>

Range(s) == {s[i] : i \in DOMAIN s}

\* [... for ...]: the list with the items of the sequence s, as a tuple
list(s) == s \o <<>>

\* {k: v for ...}: the dictionary with the items of the mapping f, as a table
dict(f) == f @@ f

\* [s+t for s in A for t in B]
cross(A, B) ==
    list([k \in 1..(Len(A) * Len(B)) |->
             A[((k - 1) \div Len(B)) + 1] \o B[((k - 1) % Len(B)) + 1]])

boxes == cross(rows, cols)

BoxSet == Range(boxes)

row_units == list([i \in 1..Len(rows) |-> cross(<<rows[i]>>, cols)])

column_units == list([i \in 1..Len(cols) |-> cross(rows, <<cols[i]>>)])

\* the row and column groups ('ABC','DEF','GHI') and ('123','456','789')
square_groups == <<1..3, 4..6, 7..9>>

square_units ==
    list([k \in 1..9 |->
        cross(SelectSeq(rows, LAMBDA r :
                  \E i \in square_groups[((k - 1) \div 3) + 1] : rows[i] = r),
              SelectSeq(cols, LAMBDA c :
                  \E i \in square_groups[((k - 1) % 3) + 1] : cols[i] = c))])

\* rows[i]+cols[i] and rows[-i-1]+cols[i] for i in range(len(rows))
diagonal_units ==
    << list([i \in 1..Len(rows) |-> rows[i] \o cols[i]]),
       list([i \in 1..Len(rows) |-> rows[Len(rows) + 1 - i] \o cols[i]]) >>

\* unitlist as it would be had the diagonal units been left out
unitlist_without_diagonals == row_units \o column_units \o square_units

unitlist == row_units \o column_units \o square_units \o diagonal_units

units == dict([s \in BoxSet |-> SelectSeq(unitlist, LAMBDA u : s \in Range(u))])

\* peers as it would be had the box itself not been taken out
peers_with_self == dict([s \in BoxSet |->
                            UNION {Range(units[s][i]) : i \in DOMAIN units[s]}])

peers == dict([s \in BoxSet |->
                  (UNION {Range(units[s][i]) : i \in DOMAIN units[s]}) \ {s}])


(***************************************************************************)
(* Python string and list helpers                                          *)
(***************************************************************************)
\* c in s, for a one-character string c
In(c, s) == \E i \in DOMAIN s : s[i] = c

\* s.replace(old, ''), for old of length 0 or 1 (the only uses in solution.py):
\* an empty `old` leaves s as it is
replace(s, old) ==
    IF old = <<>> THEN s ELSE SelectSeq(s, LAMBDA ch : ch # old[1])

\* Every values dictionary has the boxes as its keys.  The loops below test
\* this on the result of each step, which also makes the evaluator finish a
\* step before it starts the next one.
is_values(values) == DOMAIN values = BoxSet

\* the position of a box in the key order of every values dictionary
box_index == dict([box \in BoxSet |-> CHOOSE i \in DOMAIN boxes : boxes[i] = box])

BoxIndex(box) == box_index[box]

(***************************************************************************)
(* A mutable machine state threaded through the passes:                    *)
(*   values      the contents of the dictionary the pass works on          *)
(*   assignments the module-level list `assignments`                       *)
(***************************************************************************)
\* assign_value(values, box, value)
assign_value(m, box, value) ==
    IF m.values[box] = value
    THEN m
    ELSE LET updated == [m.values EXCEPT ![box] = value]
         IN  [values |-> updated,
              assignments |-> IF Len(value) = 1
                              THEN Append(m.assignments, updated)
                              ELSE m.assignments]

\* The iteration order of the set peers[box] is fixed by the interpreter's
\* string hashing for the life of the process and is otherwise arbitrary.
\* Two orders are modelled: the key order of `boxes` and its reverse.
HashOrders == {"forward", "backward"}

peer_list(box, order) ==
    LET fwd == SelectSeq(boxes, LAMBDA p : p \in peers[box])
    IN  IF order = "forward" THEN fwd
        ELSE list([i \in 1..Len(fwd) |-> fwd[Len(fwd) + 1 - i]])

peer_lists ==
    dict([order \in HashOrders |-> dict([box \in BoxSet |-> peer_list(box, order)])])

\* The dictionary after the first j steps of the loop
\*   for peer in peers[box]: assign_value(values, peer, values[peer].replace(digit,''))
\* that started from `values`: the peers are distinct, so step n changes
\* plist[n] alone.
peers_done(values, digit, plist, j) ==
    [b \in {plist[n] : n \in 1..j} |-> replace(values[b], digit)] @@ values

\* The whole loop over the peers of one solved box.  assign_value appends a copy
\* of the dictionary at each step that changes a peer to a one-character string.
eliminate_peers(m, digit, plist) ==
    LET recorded == SelectSeq([n \in DOMAIN plist |-> n],
                       LAMBDA n : /\ replace(m.values[plist[n]], digit) # m.values[plist[n]]
                                  /\ Len(replace(m.values[plist[n]], digit)) = 1)
    IN  [values |-> peers_done(m.values, digit, plist, Len(plist)),
         assignments |-> m.assignments \o
             [n \in DOMAIN recorded |-> peers_done(m.values, digit, plist, recorded[n])]]

\* One step of the loop `for box in solved_values` of eliminate:
\*   digit = values[box]; for peer in peers[box]: ...
\* A box emptied earlier in the pass has digit '', and replace('', '') leaves
\* every peer as it is.
eliminate_box(m, box, order) ==
    eliminate_peers(m, m.values[box], peer_lists[order][box])

RECURSIVE eliminate_boxes(_, _, _, _)
\* for box in solved_values: ...   (from the i-th box on)
eliminate_boxes(m, solved_values, i, order) ==
    IF i > Len(solved_values) THEN m
    ELSE LET next == eliminate_box(m, solved_values[i], order)
         IN  IF is_values(next.values)
             THEN eliminate_boxes(next, solved_values, i + 1, order)
             ELSE next

\* eliminate(values)
eliminate(m, order) ==
    LET solved_values == SelectSeq(boxes, LAMBDA box : Len(m.values[box]) = 1)
    IN  eliminate_boxes(m, solved_values, 1, order)

\* potential_fit = [box for box in unit if number in values[box]]
potential_fit(values, unit, number) ==
    SelectSeq(unit, LAMBDA box : In(number, values[box]))

RECURSIVE only_choice_numbers(_, _, _)
\* for number in cols: ...   (from the n-th number on, within one unit)
only_choice_numbers(values, unit, n) ==
    IF n > Len(cols) THEN values
    ELSE LET number == cols[n]
             fit == potential_fit(values, unit, number)
         IN  IF Len(fit) = 1
             THEN only_choice_numbers(
                      [values EXCEPT ![fit[Len(fit)]] = <<number>>], unit, n + 1)
             ELSE only_choice_numbers(values, unit, n + 1)

RECURSIVE only_choice_units(_, _, _)
\* for unit in ulist: ...   (from the u-th unit on)
only_choice_units(values, ulist, u) ==
    IF u > Len(ulist) THEN values
    ELSE LET next == only_choice_numbers(values, ulist[u], 1)
         IN  IF is_values(next) THEN only_choice_units(next, ulist, u + 1) ELSE next

\* only_choice as it would be had it looped over the row units only
only_choice_of_rows(values) == only_choice_units(values, row_units, 1)

\* only_choice(values): writes values[box] directly, not through assign_value
only_choice(values) == only_choice_units(values, unitlist, 1)

\* the keys of Counter(unit_values), in order of first occurrence
counter_keys(unit_values) ==
    LET firsts == SelectSeq([i \in DOMAIN unit_values |-> i],
                            LAMBDA i : \A j \in 1..(i - 1) :
                                           unit_values[j] # unit_values[i])
    IN  [n \in DOMAIN firsts |-> unit_values[firsts[n]]]

\* Counter(unit_values)[k]
counter_count(unit_values, k) ==
    Cardinality({i \in DOMAIN unit_values : unit_values[i] = k})

\* [k for k, v in Counter(unit_values).items() if v == 2 and len(k) == 2]
naked_pairs(values, unit) ==
    LET unit_values == [i \in DOMAIN unit |-> values[unit[i]]]
    IN  SelectSeq(counter_keys(unit_values),
                  LAMBDA k : counter_count(unit_values, k) = 2 /\ Len(k) = 2)

RECURSIVE naked_strip(_, _, _, _, _)
\* for box in unit: if len(values[box]) > 1 and values[box] != naked_pair[0]: ...
naked_strip(values, unit, pair, num, j) ==
    IF j > Len(unit) THEN values
    ELSE LET box == unit[j]
         IN  naked_strip(
                 IF Len(values[box]) > 1 /\ values[box] # pair
                 THEN [values EXCEPT ![box] = replace(values[box], <<num>>)]
                 ELSE values,
                 unit, pair, num, j + 1)

RECURSIVE naked_nums(_, _, _, _)
\* for num in naked_pair[0]: ...
naked_nums(values, unit, pair, n) ==
    IF n > Len(pair) THEN values
    ELSE naked_nums(naked_strip(values, unit, pair, pair[n], 1), unit, pair, n + 1)

\* the body of the loop `for unit in unitlist` of naked_twins
naked_twins_unit(values, unit) ==
    LET naked_pair == naked_pairs(values, unit)
    IN  IF naked_pair # <<>>
        THEN naked_nums(values, unit, naked_pair[1], 1)
        ELSE values

RECURSIVE naked_twins_units(_, _, _)
\* for unit in unitlist: ...   (units u..last of the loop)
naked_twins_units(values, u, last) ==
    IF u > last THEN values
    ELSE LET next == naked_twins_unit(values, unitlist[u])
         IN  IF is_values(next) THEN naked_twins_units(next, u + 1, last) ELSE next

\* naked_twins(values)
naked_twins(values) == naked_twins_units(values, 1, Len(unitlist))

\* grid_values(grid)
grid_values(grid) ==
    LET modified_grid == [i \in DOMAIN grid |->
                             IF grid[i] # "." THEN <<grid[i]>> ELSE cols]
    IN  dict([box \in BoxSet |-> modified_grid[BoxIndex(box)]])

\* check_number_of_solved_values(values, length=1)
check_number_of_solved_values(values, length) ==
    Cardinality({box \in BoxSet : Len(values[box]) = length})

(***************************************************************************)
(* Inputs                                                                  *)
(***************************************************************************)
\* the grid of the docstring of solve and of __main__
diag_sudoku_grid ==
    << "2", ".", ".", ".", ".", ".", ".", ".", ".",
       ".", ".", ".", ".", ".", "6", "2", ".", ".",
       ".", ".", "1", ".", ".", ".", ".", "7", ".",
       ".", ".", "6", ".", ".", "8", ".", ".", ".",
       "3", ".", ".", ".", "9", ".", ".", ".", "7",
       ".", ".", ".", "6", ".", ".", "4", ".", ".",
       ".", "4", ".", ".", ".", ".", "8", ".", ".",
       ".", ".", "5", "2", ".", ".", ".", ".", ".",
       ".", ".", ".", ".", ".", ".", ".", ".", "3" >>

\* the second grid of __main__ (commented out there)
second_grid ==
    << "9", ".", "1", ".", ".", ".", ".", "8", ".",
       "8", ".", "5", ".", "7", ".", ".", "4", ".",
       "2", ".", "4", ".", ".", ".", ".", "6", ".",
       ".", ".", "7", ".", ".", ".", ".", ".", ".",
       "5", ".", ".", ".", ".", ".", ".", ".", ".",
       ".", ".", ".", ".", ".", ".", "8", "3", ".",
       "3", ".", ".", "6", ".", ".", ".", ".", ".",
       ".", "9", ".", ".", ".", ".", ".", ".", ".",
       ".", ".", ".", ".", ".", ".", ".", ".", "." >>

\* the characters of a well-formed grid string
GridChars == {"."} \cup Range(cols)

\* How many characters of diag_sudoku_grid, counted from its end, the inputs
\* may overwrite.
NumVaried == 2

\* Well-formed grid strings given to solve: the two grids of __main__, and
\* diag_sudoku_grid with one of its last NumVaried characters overwritten.
Puzzles ==
    {diag_sudoku_grid, second_grid} \cup
    {[diag_sudoku_grid EXCEPT ![Len(boxes) + 1 - p] = ch] :
        p \in 1..NumVaried, ch \in GridChars}

\* Candidate strings a caller of search may put in one box of a dictionary.
DirectCells == {<<>>, <<"4", "7">>}

\* Dictionaries handed to search directly: the dictionary of diag_sudoku_grid
\* with one of its first NumVaried boxes overwritten.
DirectValues ==
    {[grid_values(diag_sudoku_grid) EXCEPT ![boxes[p]] = cs] :
        p \in 1..NumVaried, cs \in DirectCells}

\* Candidate strings for the boxes of row A in the dictionaries handed to
\* naked_twins.
TwinCells == {<<"4", "6">>, <<"5", "7">>, <<"4", "5", "6", "7">>}

\* How many boxes of row A, from A2 on, those dictionaries overwrite.
NumTwinBoxes == 4

\* Dictionaries handed to naked_twins: the dictionary of diag_sudoku_grid with
\* the boxes A2.. overwritten by candidate strings of TwinCells.
TwinValues ==
    {dict([box \in BoxSet |->
              IF BoxIndex(box) \in 2..(NumTwinBoxes + 1)
              THEN cells[BoxIndex(box) - 1]
              ELSE grid_values(diag_sudoku_grid)[box]]) :
        cells \in [1..NumTwinBoxes -> TwinCells]}

(***************************************************************************)
(* Python values returned by reduce_puzzle, search and solve               *)
(***************************************************************************)
PyFalse == [type |-> "bool", ref |-> 0]

PyNone == [type |-> "NoneType", ref |-> 0]

PyDict(r) == [type |-> "dict", ref |-> r]

\* truth value: False and None are false, a dictionary with 81 keys is true
truthy(v) == v.type = "dict"

(***************************************************************************)
(* State                                                                   *)
(***************************************************************************)
VARIABLES
    hash_order,   \* the iteration order of the peers sets in this process
    call,         \* the top-level call: the function and its argument
    pc,           \* the statement the running call is at
    heap,         \* the dictionary objects: reference -> contents
    stack,        \* the active calls of search, the running one last
    assignments,  \* the module-level list `assignments`
    ret,          \* the value the last finished call returned
    result        \* the value the top-level call returned

vars == <<hash_order, call, pc, heap, stack, assignments, ret, result>>

NoBox == ""

\* The locals of one call of search (and of the reduce_puzzle call it makes).
\*   values  reference of the dictionary passed in
\*   before  solved_values_before of reduce_puzzle
\*   box, rest   the chosen box and the characters of box_value not yet tried
\*   number  the character being tried
\* and, for stating properties, the contents of the dictionary when the call
\* started (entered), when the pass that ran last was handed it (passed) and
\* when the box was chosen (chosen).
Frame(r, contents) ==
    [values |-> r, before |-> 0, box |-> NoBox, rest |-> <<>>, number |-> "",
     entered |-> contents, passed |-> contents, chosen |-> contents]

Top == stack[Len(stack)]

\* the contents of the dictionary the running call works on
Running == heap[Top.values]

SetTop(f) == [stack EXCEPT ![Len(stack)] = f]

\* the dictionary objects still referenced after a call has returned v
Collect(h, stk, v) ==
    LET live == {stk[i].values : i \in DOMAIN stk}
                \cup (IF truthy(v) THEN {v.ref} ELSE {})
    IN  [r \in live |-> h[r]] @@ <<>>

\* values.copy() as it would be had search kept the caller's dictionary
dict_alias(h, r) == [ref |-> r, heap |-> h]

\* values.copy(): a new dictionary object with the same items
dict_copy(h, r) ==
    LET new == CHOOSE n \in 1..(Cardinality(DOMAIN h) + 1) : n \notin DOMAIN h
    IN  [ref |-> new, heap |-> (new :> h[r]) @@ h]

Init ==
    /\ hash_order \in HashOrders
    /\ call = [fn |-> "none", grid |-> <<>>, values |-> <<>>]
    /\ pc = "idle"
    /\ heap = <<>>
    /\ stack = <<>>
    /\ assignments = <<>>
    /\ ret = PyNone
    /\ result = PyNone

\* solve(grid), lines 211-212: values = grid_values(grid); search(values)
Solve(grid) ==
    /\ pc = "idle"
    /\ call' = [fn |-> "solve", grid |-> grid, values |-> grid_values(grid)]
    /\ heap' = (1 :> grid_values(grid))
    /\ stack' = <<Frame(1, grid_values(grid))>>
    /\ pc' = "reduce_eliminate"
    /\ UNCHANGED <<hash_order, assignments, ret, result>>

\* search(values) called directly with a dictionary
Search(values) ==
    /\ pc = "idle"
    /\ call' = [fn |-> "search", grid |-> <<>>, values |-> values]
    /\ heap' = (1 :> values)
    /\ stack' = <<Frame(1, values)>>
    /\ pc' = "reduce_eliminate"
    /\ UNCHANGED <<hash_order, assignments, ret, result>>

\* naked_twins(values) called directly with a dictionary; it changes the
\* dictionary in place and returns it
NakedTwins(values) ==
    /\ pc = "idle"
    /\ call' = [fn |-> "naked_twins", grid |-> <<>>, values |-> values]
    /\ heap' = (1 :> naked_twins(values))
    /\ ret' = PyDict(1)
    /\ result' = PyDict(1)
    /\ pc' = "done"
    /\ UNCHANGED <<hash_order, stack, assignments>>

\* reduce_puzzle, lines 153-156: count the solved boxes, then eliminate
ReduceEliminate ==
    /\ pc = "reduce_eliminate"
    /\ LET m == eliminate([values |-> Running, assignments |-> assignments],
                          hash_order)
       IN  /\ heap' = [heap EXCEPT ![Top.values] = m.values]
           /\ assignments' = m.assignments
    /\ stack' = SetTop([Top EXCEPT
                           !.before = check_number_of_solved_values(Running, 1),
                           !.passed = Running])
    /\ pc' = "reduce_only_choice"
    /\ UNCHANGED <<hash_order, call, ret, result>>

\* reduce_puzzle, line 157
ReduceOnlyChoice ==
    /\ pc = "reduce_only_choice"
    /\ heap' = [heap EXCEPT ![Top.values] = only_choice(Running)]
    /\ stack' = SetTop([Top EXCEPT !.passed = Running])
    /\ pc' = "reduce_check"
    /\ UNCHANGED <<hash_order, call, assignments, ret, result>>

\* reduce_outcome as it would be without the check for an empty box
reduce_outcome_unchecked(values, before) ==
    LET stop == before = check_number_of_solved_values(values, 1)
    IN  IF stop THEN "return values" ELSE "loop"

\* reduce_outcome as it would be had stop never been set
reduce_outcome_unstopped(values, before) ==
    IF check_number_of_solved_values(values, 0) # 0 THEN "return False"
    ELSE "loop"

\* reduce_puzzle, lines 161-167: what the loop does after the two passes
reduce_outcome(values, before) ==
    LET stop == before = check_number_of_solved_values(values, 1)
    IN  IF check_number_of_solved_values(values, 0) # 0 THEN "return False"
        ELSE IF stop THEN "return values"
        ELSE "loop"

ReduceCheck ==
    /\ pc = "reduce_check"
    /\ LET outcome == reduce_outcome(Running, Top.before)
       IN  /\ pc' = IF outcome = "loop" THEN "reduce_eliminate" ELSE "search_check"
           /\ ret' = IF outcome = "return False" THEN PyFalse
                     ELSE IF outcome = "return values" THEN PyDict(Top.values)
                     ELSE ret
    /\ UNCHANGED <<hash_order, call, heap, stack, assignments, result>>

\* The running call of search returns v: to the search call that made it
\* (line 196), or to the top-level caller.
Return(v) ==
    /\ stack' = SubSeq(stack, 1, Len(stack) - 1)
    /\ heap' = Collect(heap, stack', v)
    /\ ret' = v
    /\ IF Len(stack) > 1
       THEN pc' = "search_attempt" /\ UNCHANGED result
       ELSE IF call.fn = "solve"
       THEN pc' = "solve_return" /\ UNCHANGED result
       ELSE pc' = "done" /\ result' = v
    /\ UNCHANGED <<hash_order, call, assignments>>

\* min([(box, box_value) for ... if len(box_value) > 1]): tuples compare by
\* the box name first; the names are distinct, and their string order is the
\* order of `boxes`.
min_unsolved(values) ==
    LET unsolved == SelectSeq(boxes, LAMBDA box : Len(values[box]) > 1)
    IN  unsolved[1]

\* search, lines 178-185, with `solved` the value reduce_puzzle returned
SearchCheck ==
    /\ pc = "search_check"
    /\ IF ~truthy(ret)
       THEN Return(PyFalse)
       ELSE IF \A box \in BoxSet : Len(Running[box]) = 1
       THEN Return(ret)
       ELSE /\ stack' = SetTop([Top EXCEPT
                                   !.box = min_unsolved(Running),
                                   !.rest = Running[min_unsolved(Running)],
                                   !.chosen = Running])
            /\ pc' = "search_loop"
            /\ UNCHANGED <<hash_order, call, heap, assignments, ret, result>>

\* search, lines 188-196: the next character of box_value, if any, is tried on
\* a copy; after the last one the function ends and returns None
SearchLoop ==
    /\ pc = "search_loop"
    /\ IF Top.rest = <<>>
       THEN Return(PyNone)
       ELSE LET number == Head(Top.rest)
                copied == dict_copy(heap, Top.values)
                m == assign_value([values |-> copied.heap[copied.ref],
                                   assignments |-> assignments],
                                  Top.box, <<number>>)
            IN  /\ heap' = [copied.heap EXCEPT ![copied.ref] = m.values]
                /\ assignments' = m.assignments
                /\ stack' = Append(SetTop([Top EXCEPT !.rest = Tail(Top.rest),
                                                      !.number = number]),
                                   Frame(copied.ref, m.values))
                /\ pc' = "reduce_eliminate"
                /\ UNCHANGED <<hash_order, call, ret, result>>

\* search, line 199: if attempt: return attempt
SearchAttempt ==
    /\ pc = "search_attempt"
    /\ IF truthy(ret)
       THEN Return(ret)
       ELSE /\ pc' = "search_loop"
            /\ UNCHANGED <<hash_order, call, heap, stack, assignments, ret, result>>

\* solve, line 214: return solution if solution else False
SolveReturn ==
    /\ pc = "solve_return"
    /\ result' = IF truthy(ret) THEN ret ELSE PyFalse
    /\ pc' = "done"
    /\ UNCHANGED <<hash_order, call, heap, stack, assignments, ret>>

\* the steps of a call that has started
Run ==
    \/ ReduceEliminate
    \/ ReduceOnlyChoice
    \/ ReduceCheck
    \/ SearchCheck
    \/ SearchLoop
    \/ SearchAttempt
    \/ SolveReturn

Next ==
    \/ \E grid \in Puzzles : Solve(grid)
    \/ \E values \in DirectValues : Search(values)
    \/ \E values \in TwinValues : NakedTwins(values)
    \/ Run

Spec == Init /\ [][Next]_vars

\* a call has started and has not returned: exactly then a step of Run is
\* enabled, and no other step is
Called == pc \notin {"idle", "done"}

\* The interpreter runs a call that has started to its return: it always
\* takes the call's next step.  This is weak fairness of Run, with the
\* enabledness of Run written as Called and a step of Run as a step taken
\* while Called.
FairSpec == Spec /\ ([]<>(~Called) \/ []<><<Called>>_vars)

(***************************************************************************)
(* Vocabulary of the properties                                            *)
(***************************************************************************)
Digits == Range(cols)

\* the numeric rank of a digit
DigitIndex(d) == CHOOSE i \in DOMAIN cols : cols[i] = d

\* the 29 units: 9 rows, 9 columns, 9 squares, 2 diagonals
UnitSet ==
    Range(row_units) \cup Range(column_units) \cup Range(square_units)
        \cup Range(diagonal_units)

\* every box holds exactly one digit
AllResolved(values) == \A box \in BoxSet : Len(values[box]) = 1

\* some box has no candidate left
HasEmpty(values) == \E box \in BoxSet : values[box] = <<>>

\* the number of boxes with more than one candidate
Unresolved(values) == Cardinality({box \in BoxSet : Len(values[box]) > 1})

\* the unit contains every digit exactly once
UnitComplete(values, unit) ==
    \A d \in Digits :
        Cardinality({i \in DOMAIN unit : values[unit[i]] = <<d>>}) = 1

\* the boxes of a unit that have d among their candidates
Holders(values, unit, d) == {box \in Range(unit) : In(d, values[box])}

\* the dictionary after the first n units of the loop of naked_twins
naked_twins_upto(values, n) == naked_twins_units(values, 1, n)

\* Full grids used to state completeness: for each puzzle of `Puzzles` that
\* has a completion (also with NumVaried one larger), up to three of its
\* completions.  A grid counts only if it satisfies every unit.
Completions ==
    {
        << "2", "3", "7", "1", "8", "4", "6", "9", "5",
           "9", "5", "8", "3", "7", "6", "2", "4", "1",
           "4", "6", "1", "9", "2", "5", "3", "7", "8",
           "1", "7", "6", "4", "3", "8", "9", "5", "2",
           "3", "8", "4", "5", "9", "2", "1", "6", "7",
           "5", "2", "9", "6", "1", "7", "4", "8", "3",
           "6", "4", "2", "7", "5", "3", "8", "1", "9",
           "8", "1", "5", "2", "6", "9", "7", "3", "4",
           "7", "9", "3", "8", "4", "1", "5", "2", "6" >>,
        << "2", "6", "3", "4", "7", "9", "1", "8", "5",
           "8", "5", "7", "1", "3", "6", "2", "4", "9",
           "4", "9", "1", "8", "2", "5", "3", "7", "6",
           "1", "7", "6", "3", "4", "8", "9", "5", "2",
           "3", "8", "4", "5", "9", "2", "6", "1", "7",
           "5", "2", "9", "6", "1", "7", "4", "3", "8",
           "6", "4", "2", "7", "5", "3", "8", "9", "1",
           "9", "1", "5", "2", "8", "4", "7", "6", "3",
           "7", "3", "8", "9", "6", "1", "5", "2", "4" >>,
        << "2", "6", "7", "4", "3", "9", "1", "8", "5",
           "8", "5", "3", "7", "1", "6", "2", "4", "9",
           "4", "9", "1", "8", "2", "5", "3", "7", "6",
           "5", "7", "6", "3", "4", "8", "9", "1", "2",
           "3", "8", "4", "1", "9", "2", "6", "5", "7",
           "1", "2", "9", "6", "5", "7", "4", "3", "8",
           "6", "4", "2", "5", "7", "3", "8", "9", "1",
           "9", "1", "5", "2", "8", "4", "7", "6", "3",
           "7", "3", "8", "9", "6", "1", "5", "2", "4" >>,
        << "2", "6", "7", "4", "8", "3", "1", "9", "5",
           "9", "5", "3", "7", "1", "6", "2", "4", "8",
           "4", "8", "1", "9", "5", "2", "3", "7", "6",
           "1", "7", "6", "3", "4", "8", "9", "5", "2",
           "3", "2", "4", "1", "9", "5", "6", "8", "7",
           "5", "9", "8", "6", "2", "7", "4", "1", "3",
           "6", "4", "2", "5", "7", "9", "8", "3", "1",
           "8", "1", "5", "2", "3", "4", "7", "6", "9",
           "7", "3", "9", "8", "6", "1", "5", "2", "4" >>,
        << "2", "6", "7", "9", "4", "5", "3", "8", "1",
           "8", "5", "3", "7", "1", "6", "2", "4", "9",
           "4", "9", "1", "8", "2", "3", "5", "7", "6",
           "5", "7", "6", "4", "3", "8", "1", "9", "2",
           "3", "8", "4", "1", "9", "2", "6", "5", "7",
           "1", "2", "9", "6", "5", "7", "4", "3", "8",
           "6", "4", "2", "3", "7", "9", "8", "1", "5",
           "9", "3", "5", "2", "8", "1", "7", "6", "4",
           "7", "1", "8", "5", "6", "4", "9", "2", "3" >>,
        << "2", "6", "8", "5", "4", "7", "9", "1", "3",
           "5", "7", "3", "9", "1", "6", "2", "4", "8",
           "4", "9", "1", "3", "8", "2", "5", "7", "6",
           "1", "5", "6", "4", "7", "8", "3", "9", "2",
           "3", "2", "4", "1", "9", "5", "6", "8", "7",
           "9", "8", "7", "6", "2", "3", "4", "5", "1",
           "6", "4", "2", "7", "5", "1", "8", "3", "9",
           "8", "1", "5", "2", "3", "9", "7", "6", "4",
           "7", "3", "9", "8", "6", "4", "1", "2", "5" >>,
        << "2", "6", "8", "5", "4", "7", "9", "1", "3",
           "5", "7", "9", "3", "1", "6", "2", "4", "8",
           "4", "3", "1", "9", "8", "2", "5", "7", "6",
           "1", "5", "6", "4", "7", "8", "3", "9", "2",
           "3", "2", "4", "1", "9", "5", "6", "8", "7",
           "9", "8", "7", "6", "2", "3", "4", "5", "1",
           "6", "4", "2", "7", "5", "1", "8", "3", "9",
           "8", "1", "5", "2", "3", "9", "7", "6", "4",
           "7", "9", "3", "8", "6", "4", "1", "2", "5" >>,
        << "2", "8", "9", "3", "5", "7", "1", "6", "4",
           "4", "3", "7", "8", "1", "6", "2", "5", "9",
           "5", "6", "1", "9", "2", "4", "3", "7", "8",
           "1", "2", "6", "7", "4", "8", "9", "3", "5",
           "3", "5", "4", "1", "9", "2", "6", "8", "7",
           "9", "7", "8", "6", "3", "5", "4", "1", "2",
           "6", "4", "2", "5", "7", "3", "8", "9", "1",
           "8", "1", "5", "2", "6", "9", "7", "4", "3",
           "7", "9", "3", "4", "8", "1", "5", "2", "6" >>,
        << "2", "8", "9", "3", "7", "5", "1", "6", "4",
           "4", "3", "7", "9", "1", "6", "2", "5", "8",
           "5", "6", "1", "8", "2", "4", "3", "7", "9",
           "1", "7", "6", "5", "4", "8", "9", "3", "2",
           "3", "5", "4", "1", "9", "2", "6", "8", "7",
           "9", "2", "8", "6", "3", "7", "4", "1", "5",
           "6", "4", "2", "7", "5", "3", "8", "9", "1",
           "8", "1", "5", "2", "6", "9", "7", "4", "3",
           "7", "9", "3", "4", "8", "1", "5", "2", "6" >>,
        << "2", "8", "9", "5", "7", "3", "1", "6", "4",
           "4", "3", "7", "8", "1", "6", "2", "5", "9",
           "5", "6", "1", "9", "2", "4", "3", "7", "8",
           "1", "2", "6", "7", "4", "8", "9", "3", "5",
           "3", "5", "4", "1", "9", "2", "6", "8", "7",
           "9", "7", "8", "6", "3", "5", "4", "1", "2",
           "6", "4", "2", "3", "5", "7", "8", "9", "1",
           "8", "1", "5", "2", "6", "9", "7", "4", "3",
           "7", "9", "3", "4", "8", "1", "5", "2", "6" >>,
        << "2", "8", "9", "7", "5", "3", "1", "6", "4",
           "4", "3", "7", "9", "1", "6", "2", "5", "8",
           "5", "6", "1", "8", "2", "4", "3", "7", "9",
           "1", "7", "6", "5", "4", "8", "9", "3", "2",
           "3", "5", "4", "1", "9", "2", "6", "8", "7",
           "9", "2", "8", "6", "3", "7", "4", "1", "5",
           "6", "4", "2", "3", "7", "5", "8", "9", "1",
           "8", "1", "5", "2", "6", "9", "7", "4", "3",
           "7", "9", "3", "4", "8", "1", "5", "2", "6" >>,
        << "9", "3", "1", "2", "6", "4", "5", "8", "7",
           "8", "6", "5", "1", "7", "3", "2", "4", "9",
           "2", "7", "4", "9", "5", "8", "3", "6", "1",
           "4", "1", "7", "3", "8", "6", "9", "2", "5",
           "5", "8", "3", "4", "2", "9", "7", "1", "6",
           "6", "2", "9", "5", "1", "7", "8", "3", "4",
           "3", "4", "8", "6", "9", "5", "1", "7", "2",
           "7", "9", "2", "8", "4", "1", "6", "5", "3",
           "1", "5", "6", "7", "3", "2", "4", "9", "8" >>,
        << "9", "6", "1", "3", "4", "2", "5", "8", "7",
           "8", "3", "5", "1", "7", "6", "2", "4", "9",
           "2", "7", "4", "8", "9", "5", "3", "6", "1",
           "6", "1", "7", "2", "3", "8", "4", "9", "5",
           "5", "8", "3", "9", "6", "4", "7", "1", "2",
           "4", "2", "9", "5", "1", "7", "8", "3", "6",
           "3", "5", "2", "6", "8", "9", "1", "7", "4",
           "7", "9", "8", "4", "2", "1", "6", "5", "3",
           "1", "4", "6", "7", "5", "3", "9", "2", "8" >>,
        << "9", "6", "1", "3", "5", "4", "2", "8", "7",
           "8", "3", "5", "2", "7", "6", "1", "4", "9",
           "2", "7", "4", "8", "9", "1", "3", "6", "5",
           "4", "2", "7", "1", "3", "8", "9", "5", "6",
           "5", "8", "3", "9", "6", "2", "7", "1", "4",
           "6", "1", "9", "5", "4", "7", "8", "3", "2",
           "3", "4", "2", "6", "8", "9", "5", "7", "1",
           "7", "9", "8", "4", "1", "5", "6", "2", "3",
           "1", "5", "6", "7", "2", "3", "4", "9", "8" >>
    }

\* the full grids among them that satisfy all 29 units
ValidCompletions ==
    {s \in Completions :
        \A u \in UnitSet : \A d \in Digits :
            Cardinality({box \in Range(u) : s[BoxIndex(box)] = d}) = 1}

\* s is a full grid satisfying all 29 units and agreeing with the givens of grid
Completes(s, grid) ==
    /\ s \in ValidCompletions
    /\ \A i \in DOMAIN grid : grid[i] = "." \/ grid[i] = s[i]

\* the dictionary still allows the full grid s
Admits(values, s) == \A i \in DOMAIN boxes : In(s[i], values[boxes[i]])

(***************************************************************************)
(* C1  Soundness of solve.  Whenever solve returns a grid (not False),     *)
(* every box of it holds exactly one digit, every given of the input grid  *)
(* string is still in its box, and each of the 29 units contains every     *)
(* digit exactly once.                                                     *)
(***************************************************************************)
C1_Soundness ==
    (pc = "done" /\ call.fn = "solve" /\ result # PyFalse) =>
        /\ truthy(result)
        /\ AllResolved(heap[result.ref])
        /\ \A i \in DOMAIN call.grid :
               call.grid[i] # "." => heap[result.ref][boxes[i]] = <<call.grid[i]>>
        /\ \A u \in UnitSet : UnitComplete(heap[result.ref], u)

\* solve has returned a grid that was found inside a recursive call of search
C1_Witness ==
    pc = "done" /\ call.fn = "solve" /\ truthy(result) /\ result.ref # 1

(***************************************************************************)
(* C2  Completeness of solve.  For a grid string that has a completion s,  *)
(* solve returns a grid and never False.  Until it returns, some active    *)
(* call of search still allows s: its dictionary admits s (eliminate and   *)
(* only_choice have removed no digit of s from it) and, once it has chosen *)
(* a box, the digit of s for that box is among the candidates it has not   *)
(* tried yet (search tries every candidate) or a grid is being returned.   *)
(***************************************************************************)
Open(i, s) ==
    /\ Admits(heap[stack[i].values], s)
    /\ IF i < Len(stack) \/ pc \in {"search_loop", "search_attempt"}
       THEN In(s[BoxIndex(stack[i].box)], stack[i].rest)
       ELSE pc = "search_check" => truthy(ret)

C2_Completeness ==
    \A s \in Completions :
        (call.fn = "solve" /\ Completes(s, call.grid)) =>
            IF pc = "done" THEN truthy(result)
            ELSE IF pc = "solve_return" THEN truthy(ret)
            ELSE \/ pc = "search_attempt" /\ truthy(ret)
                 \/ \E i \in DOMAIN stack : Open(i, s)

\* solve of a grid with a completion has returned, after a branch of the
\* search had failed (the list of snapshots shows a box tried twice)
C2_Witness ==
    /\ pc = "done" /\ call.fn = "solve" /\ truthy(result)
    /\ \E s \in Completions : Completes(s, call.grid)
    /\ \E i, j \in DOMAIN assignments : \E box \in BoxSet :
           /\ i < j
           /\ Len(assignments[i][box]) = 1 /\ Len(assignments[j][box]) = 1
           /\ assignments[i][box] # assignments[j][box]

(***************************************************************************)
(* C3  Contradiction detection.  A call of reduce_puzzle on a dictionary   *)
(* with an empty box returns False, and search on it returns False, never  *)
(* a grid; and a box that is empty before eliminate or only_choice runs is *)
(* still empty after it.                                                   *)
(***************************************************************************)
C3_ContradictionDetection ==
    /\ (pc = "search_check" /\ HasEmpty(Top.entered)) => ret = PyFalse
    /\ (pc = "done" /\ call.fn = "search" /\ HasEmpty(call.values)) =>
           result = PyFalse
    /\ pc \in {"reduce_only_choice", "reduce_check"} =>
           \A box \in BoxSet : Top.passed[box] = <<>> => Running[box] = <<>>

\* search was called with a dictionary that has an empty box and has returned
C3_Witness ==
    pc = "done" /\ call.fn = "search" /\ HasEmpty(call.values) /\ result = PyFalse

(***************************************************************************)
(* C4  naked_twins.  When naked_twins processes a unit, then for every     *)
(* two-digit candidate string that exactly two boxes of the unit hold at   *)
(* that moment, every other box of the unit with more than one candidate   *)
(* loses both digits, and the twins and the resolved boxes are unchanged.  *)
(***************************************************************************)
C4_UnitDone(before, after, unit) ==
    \A twin \in Range(unit) :
        LET pair == before[twin]
        IN  (Len(pair) = 2 /\ Cardinality({b \in Range(unit) : before[b] = pair}) = 2)
            => \A b \in Range(unit) :
                   IF before[b] = pair \/ Len(before[b]) <= 1
                   THEN after[b] = before[b]
                   ELSE ~In(pair[1], after[b]) /\ ~In(pair[2], after[b])

C4_NakedTwinsAllPairs ==
    (pc = "done" /\ call.fn = "naked_twins") =>
        /\ heap[result.ref] = naked_twins_upto(call.values, Len(unitlist))
        /\ \A n \in DOMAIN unitlist :
               C4_UnitDone(naked_twins_upto(call.values, n - 1),
                           naked_twins_upto(call.values, n), unitlist[n])

(***************************************************************************)
(* C5  only_choice.  Original statement: if d is a candidate of exactly    *)
(* one box of a unit in the dictionary passed in, that box is exactly d in *)
(* the dictionary returned.                                                *)
(***************************************************************************)
C5_OnlyChoiceOfInput ==
    pc = "reduce_check" =>
        \A u \in UnitSet : \A d \in Digits : \A box \in Holders(Top.passed, u, d) :
            Holders(Top.passed, u, d) = {box} => Running[box] = <<d>>

(***************************************************************************)
(* C5, amended.  If d is a candidate of exactly one box of a unit in the   *)
(* dictionary passed in, then in the dictionary returned that box holds    *)
(* exactly one digit, one of its candidates in the dictionary passed in:   *)
(* d itself, unless an earlier step of the pass had resolved the box to    *)
(* another digit, and then no box of the unit has d as a candidate.        *)
(***************************************************************************)
C5_OnlyChoice ==
    pc = "reduce_check" =>
        \A u \in UnitSet : \A d \in Digits : \A box \in Holders(Top.passed, u, d) :
            Holders(Top.passed, u, d) = {box} =>
                /\ Len(Running[box]) = 1
                /\ In(Running[box][1], Top.passed[box])
                /\ Running[box] = <<d>> \/ Holders(Running, u, d) = {}

\* only_choice has resolved a box that had several candidates and was the only
\* box of one of its units holding some digit
C5_Witness ==
    /\ pc = "reduce_check"
    /\ \E u \in UnitSet : \E d \in Digits : \E box \in Holders(Top.passed, u, d) :
           /\ Holders(Top.passed, u, d) = {box}
           /\ Len(Top.passed[box]) > 1
           /\ Running[box] = <<d>>

(***************************************************************************)
(* C6  Assignment trace.  The list assignments only grows, and every step  *)
(* that changes a box from more than one digit to exactly one digit        *)
(* appends a snapshot of the dictionary showing that box resolved; a trial *)
(* assignment of search appends the dictionary it is about to search.      *)
(***************************************************************************)
C6_AssignmentTrace ==
    [][/\ Len(assignments') >= Len(assignments)
       /\ SubSeq(assignments', 1, Len(assignments)) = assignments
       /\ pc \in {"reduce_eliminate", "reduce_only_choice"} =>
              \A box \in BoxSet :
                  (Len(Running[box]) > 1 /\ Len(Running'[box]) = 1) =>
                      \E n \in (Len(assignments) + 1)..Len(assignments') :
                          assignments'[n][box] = Running'[box]
       /\ (pc = "search_loop" /\ pc' = "reduce_eliminate") =>
              /\ Len(assignments') = Len(assignments) + 1
              /\ assignments'[Len(assignments')] = Running']_vars

(***************************************************************************)
(* C7  Branching choice.  Whenever search branches, the box it picks has   *)
(* the fewest candidates among the unresolved boxes, and its candidates    *)
(* are tried in increasing numeric order.                                  *)
(***************************************************************************)
C7_FewestCandidates ==
    pc = "search_loop" =>
        /\ \A box \in BoxSet :
               Len(Top.chosen[box]) > 1 =>
                   Len(Top.chosen[Top.box]) <= Len(Top.chosen[box])
        /\ \A i, j \in DOMAIN Top.rest :
               i < j => DigitIndex(Top.rest[i]) < DigitIndex(Top.rest[j])

(***************************************************************************)
(* C8  Copy-on-branch.  While a recursive call runs, and after it has      *)
(* returned, the dictionary of each calling search is what it was when the *)
(* caller chose its box; and each recursive call started from exactly that *)
(* dictionary with the trial digit in the chosen box.                      *)
(***************************************************************************)
C8_CopyOnBranch ==
    /\ \A i \in DOMAIN stack :
           (i < Len(stack) \/ pc \in {"search_loop", "search_attempt"}) =>
               heap[stack[i].values] = stack[i].chosen
    /\ \A i \in 1..(Len(stack) - 1) :
           stack[i + 1].entered =
               [stack[i].chosen EXCEPT ![stack[i].box] = <<stack[i].number>>]

\* a branch has failed and returned to its caller, two calls deep
C8_Witness ==
    pc = "search_attempt" /\ ~truthy(ret) /\ Len(stack) >= 2

(***************************************************************************)
(* C9  Fixed point.  Original statement: whenever reduce_puzzle returns a  *)
(* dictionary, a further application of eliminate, of only_choice and of   *)
(* naked_twins each leaves it unchanged.                                   *)
(***************************************************************************)
ReduceReturned == pc = "search_check" /\ truthy(ret)

C9_FixedPointOfAllPasses ==
    ReduceReturned =>
        /\ eliminate([values |-> Running, assignments |-> <<>>], hash_order).values
               = Running
        /\ only_choice(Running) = Running
        /\ naked_twins(Running) = Running

(***************************************************************************)
(* C9, the part that holds of the loop as written.  Whenever reduce_puzzle *)
(* returns a dictionary, a further application of eliminate and of         *)
(* only_choice, the two passes the loop applies, each leaves it unchanged. *)
(***************************************************************************)
C9_FixedPoint ==
    ReduceReturned =>
        /\ eliminate([values |-> Running, assignments |-> <<>>], hash_order).values
               = Running
        /\ only_choice(Running) = Running

\* reduce_puzzle has returned a dictionary that is not fully resolved, after
\* more than one round of its loop changed it
C9_Witness ==
    ReduceReturned /\ ~AllResolved(Running) /\ Running # Top.entered

(***************************************************************************)
(* C10  Termination.  Every top-level call eventually returns; each        *)
(* recursive call of search starts from a dictionary with strictly fewer   *)
(* unresolved boxes than its caller's, and the recursion depth never       *)
(* exceeds the number of unresolved boxes of the initial dictionary.       *)
(***************************************************************************)
C10_Depth ==
    /\ \A i \in 1..(Len(stack) - 1) :
           Unresolved(stack[i + 1].entered) < Unresolved(stack[i].entered)
    /\ stack # <<>> => Len(stack) - 1 <= Unresolved(call.values)

C10_Termination == [](C10_Depth) /\ (Called ~> pc = "done")

\* a call of search three levels below the top-level one is in its loop
C10_Witness == Len(stack) >= 4 /\ pc = "reduce_check"

=============================================================================
